---- MODULE Spec2Model ----
(***************************************************************************)
(* A model of nimbus: the helper traits over the cloud SDK clients.        *)
(*   storage.rs  StorageHelper        (google_cloud_storage / aws_sdk_s3)  *)
(*   secret.rs   SecretManagerHelper  (google_secretmanager1 /             *)
(*                                     aws_sdk_secretsmanager)             *)
(*   task.rs     TaskHelper, CloudTaskHelper (google_cloudtasks2)          *)
(* The receiver of every trait method is one SDK client (self); the cloud  *)
(* service behind it and the local file system are the rest of the state.  *)
(***************************************************************************)
EXTENDS Integers, Sequences, FiniteSets, TLC

VARIABLES
    self,       \* the client the methods are called on
    objects,    \* object store: <<bucket, key>> -> [data, mime]
    fs,         \* local file system: location -> [kind, data]
    secrets,    \* secret store: secret id -> [versions, text, binary]
    queued,     \* task queues: queue -> number of tasks created
    last,       \* the last call: op, args, requests issued, result
    calls,      \* number of calls made so far
    uploaded,   \* <<bucket, key>> -> [data, op] of the last upload, if it returned Ok
    created     \* <<project, name>> -> value of the create_secret that returned Ok

vars == <<self, objects, fs, secrets, queued, last, calls, uploaded, created>>

----------------------------------------------------------------------------
(* Bounds of the model *)

MaxCalls == 2
MaxFileLen == 3

----------------------------------------------------------------------------
(* Option and Result *)

None == <<>>
Some(x) == <<x>>
IsSome(o) == Len(o) = 1
IsNone(o) == Len(o) = 0
Unwrap(o) == o[1]

Unit == "()"
Ok(v) == [tag |-> "Ok", val |-> v]
Err(area, kind, msg) == [tag |-> "Err", area |-> area, kind |-> kind, msg |-> msg]
IsOk(r) == r.tag = "Ok"
IsErr(r) == r.tag = "Err"

RECURSIVE SeqsUpTo(_, _)
SeqsUpTo(S, n) ==
    IF n = 0 THEN {<<>>}
    ELSE LET shorter == SeqsUpTo(S, n - 1)
         IN  shorter \cup {Append(s, x) : s \in shorter, x \in S}

Put(f, k, v) == [x \in DOMAIN f \cup {k} |-> IF x = k THEN v ELSE f[x]]
Drop(f, k) == [x \in DOMAIN f \ {k} |-> f[x]]
Front(s) == SubSeq(s, 1, Len(s) - 1)
Prefix(s, n) == SubSeq(s, 1, n)

----------------------------------------------------------------------------
(* Inputs *)

Data == {<<>>, <<1, 2>>, <<2, 1>>}
Buckets == {"b1", "b2"}
\* object keys as path components; a leading "/" component is an absolute key
Keys == {<<"s", "k">>, <<"..", "k">>, <<"/", "k">>}
\* the objects the calls name: every key in b1, and one of them in b2 as well
ObjectIds == {<<b, k>> \in Buckets \X Keys : b = "b1" \/ k = <<"s", "k">>}
Mimes == {None, Some("text/plain")}
\* local files given to upload_file, directories given to download_file
LocalPaths == {<<"f">>, <<"g">>, <<"n">>}
PathDirs == {<<"d">>, <<"n", "m">>, <<"f">>}

----------------------------------------------------------------------------
(* The local file system: std::path and tokio::fs as the code uses them.   *)
(* A path is a sequence of components, relative to Cwd unless it starts    *)
(* with "/". A location is an absolute path without "/" or "..".          *)

Cwd == <<"w">>

IsAbs(p) == Len(p) > 0 /\ p[1] = "/"

\* PathBuf::join: an absolute argument replaces the base
Join(base, rel) == IF IsAbs(rel) THEN rel ELSE base \o rel

\* Path::parent: the path without its final component
Parent(p) == IF p = <<>> \/ p = <<"/">> THEN None ELSE Some(Front(p))

StartOf(p) == IF IsAbs(p) THEN <<>> ELSE Cwd
CompsOf(p) == IF IsAbs(p) THEN Tail(p) ELSE p
UpOf(loc) == IF loc = <<>> THEN loc ELSE Front(loc)
StepTo(at, c) == IF c = ".." THEN UpOf(at) ELSE Append(at, c)

IsDirAt(fsys, loc) == loc \in DOMAIN fsys /\ fsys[loc].kind = "dir"
IsFileAt(fsys, loc) == loc \in DOMAIN fsys /\ fsys[loc].kind = "file"

\* the location a path names, None when a component on the way is no directory
RECURSIVE WalkFrom(_, _, _)
WalkFrom(fsys, at, comps) ==
    IF comps = <<>> THEN Some(at)
    ELSE IF ~IsDirAt(fsys, at) THEN None
    ELSE WalkFrom(fsys, StepTo(at, Head(comps)), Tail(comps))

Walk(fsys, p) == WalkFrom(fsys, StartOf(p), CompsOf(p))

\* Path::exists, Path::is_dir
Exists(fsys, p) == IsSome(Walk(fsys, p)) /\ Unwrap(Walk(fsys, p)) \in DOMAIN fsys
IsDir(fsys, p) == IsSome(Walk(fsys, p)) /\ IsDirAt(fsys, Unwrap(Walk(fsys, p)))

DirEntry == [kind |-> "dir", data |-> <<>>]
FileEntry(d) == [kind |-> "file", data |-> d]

\* tokio::fs::create_dir_all: every missing directory on the way is created;
\* it fails at a component that exists and is no directory
RECURSIVE MkdirFrom(_, _, _)
MkdirFrom(fsys, at, comps) ==
    IF comps = <<>> THEN [ok |-> TRUE, fs |-> fsys]
    ELSE LET nxt == StepTo(at, Head(comps))
         IN  IF nxt \notin DOMAIN fsys
             THEN MkdirFrom(Put(fsys, nxt, DirEntry), nxt, Tail(comps))
             ELSE IF fsys[nxt].kind = "dir"
             THEN MkdirFrom(fsys, nxt, Tail(comps))
             ELSE [ok |-> FALSE, fs |-> fsys]

CreateDirAll(fsys, p, io) ==
    IF io.kind = "mkdir" THEN [ok |-> FALSE, fs |-> fsys]
    ELSE MkdirFrom(fsys, StartOf(p), CompsOf(p))

\* tokio::fs::read
ReadFile(fsys, p) ==
    LET w == Walk(fsys, p)
    IN  IF IsSome(w) /\ IsFileAt(fsys, Unwrap(w))
        THEN [ok |-> TRUE, data |-> fsys[Unwrap(w)].data]
        ELSE [ok |-> FALSE, data |-> <<>>]

\* tokio::fs::write: create or truncate the file, then write all of data.
\* io "open": the open fails; io "write": the write fails after io.n bytes.
WriteFile(fsys, p, data, io) ==
    LET w == Walk(fsys, p)
    IN  IF p = <<>> \/ IsNone(w) \/ io.kind = "open" THEN [ok |-> FALSE, fs |-> fsys]
        ELSE IF Unwrap(w) \in DOMAIN fsys /\ fsys[Unwrap(w)].kind = "dir"
        THEN [ok |-> FALSE, fs |-> fsys]
        ELSE IF ~IsDirAt(fsys, UpOf(Unwrap(w))) THEN [ok |-> FALSE, fs |-> fsys]
        ELSE IF io.kind = "write" /\ io.n < Len(data)
        THEN [ok |-> FALSE, fs |-> Put(fsys, Unwrap(w), FileEntry(Prefix(data, io.n)))]
        ELSE [ok |-> TRUE, fs |-> Put(fsys, Unwrap(w), FileEntry(data))]

NoIo == [kind |-> "none", n |-> 0]
IoFaults ==
    {NoIo, [kind |-> "mkdir", n |-> 0], [kind |-> "open", n |-> 0]}
        \cup {[kind |-> "write", n |-> 1]}

InitFs ==
    (<<>> :> DirEntry) @@ (<<"w">> :> DirEntry) @@ (<<"w", "d">> :> DirEntry)
        @@ (<<"w", "f">> :> FileEntry(<<1, 2>>)) @@ (<<"w", "g">> :> FileEntry(<<2, 1>>))
        @@ (<<"w", "k">> :> FileEntry(<<9>>))

----------------------------------------------------------------------------
(* The object store behind the storage clients, and what the SDK answers.  *)
(* A fault f is what goes wrong in the call: f.send = FALSE, the request   *)
(* fails; f.cut = n >= 0, reading the response body fails after n bytes.   *)

StorageClients == {"gcs", "s3"}

NoFault == [send |-> TRUE, cut |-> -1]
SendFails == [send |-> FALSE, cut |-> -1]

Has(objs, bucket, key) == <<bucket, key>> \in DOMAIN objs

\* the faults that can happen to a request for (bucket, key)
FaultsFor(objs, bucket, key) ==
    {NoFault, SendFails}
        \cup (IF Has(objs, bucket, key)
              THEN {[send |-> TRUE, cut |-> n] : n \in 0..Len(objs[<<bucket, key>>].data)}
              ELSE {})

StorageReq(api, bucket, key, mime, body) ==
    [api |-> api, bucket |-> bucket, key |-> key, mime |-> mime, body |-> body]

\* whether the service carries the request out
Accepts(objs, req, f) ==
    /\ f.send
    /\ req.api \in {"download_object", "get_object", "gcs_delete_object"}
           => Has(objs, req.bucket, req.key)

Sent(req, ok) == [req |-> req, ok |-> ok]

\* the store after the requests of one call
RECURSIVE ServeStorage(_, _)
ServeStorage(objs, reqs) ==
    IF reqs = <<>> THEN objs
    ELSE LET r == Head(reqs).req
             id == <<r.bucket, r.key>>
             nxt == IF ~Head(reqs).ok THEN objs
                    ELSE IF r.api \in {"upload_object", "put_object"}
                    THEN Put(objs, id, [data |-> r.body, mime |-> r.mime])
                    ELSE IF r.api \in {"gcs_delete_object", "s3_delete_object"}
                    THEN Drop(objs, id)
                    ELSE objs
         IN  ServeStorage(nxt, Tail(reqs))

\* the response body of get_object as the stream the caller polls: one chunk
\* per byte, then the end of the stream, or an error after f.cut bytes
RECURSIVE Chunks(_)
Chunks(d) == IF d = <<>> THEN <<>> ELSE <<Ok(Some(<<Head(d)>>))>> \o Chunks(Tail(d))

BodyStream(d, f) ==
    IF f.cut < 0 THEN Chunks(d) \o <<Ok(None)>>
    ELSE Chunks(Prefix(d, f.cut)) \o <<Err("io", "stream", "body read failed")>>

StorageErr(msg) == Err("StorageClient", "Storage", msg)

Out(reqs, failed, result) == [reqs |-> reqs, failed |-> failed, result |-> result]

----------------------------------------------------------------------------
(* storage.rs: impl StorageHelper for Client, google_cloud_storage *)

upload_from_bytes_gcp(objs, bucket, key, mime, data, f) ==
    LET req == StorageReq("upload_object", bucket, key, mime, data)
        ok == Accepts(objs, req, f)
    IN  Out(<<Sent(req, ok)>>, ~ok, IF ok THEN Ok(Unit) ELSE StorageErr("upload_object"))

\* download_object reads the whole body itself and fails when the read fails
download_to_bytes_gcp(objs, bucket, key, f) ==
    LET req == StorageReq("download_object", bucket, key, None, <<>>)
        ok == Accepts(objs, req, f) /\ f.cut < 0
    IN  Out(<<Sent(req, ok)>>, ~ok,
            IF ok THEN Ok(objs[<<bucket, key>>].data) ELSE StorageErr("download_object"))

delete_file_gcp(objs, bucket, key, f) ==
    LET req == StorageReq("gcs_delete_object", bucket, key, None, <<>>)
        ok == Accepts(objs, req, f)
    IN  Out(<<Sent(req, ok)>>, ~ok, IF ok THEN Ok(Unit) ELSE StorageErr("delete_object"))

(* storage.rs: impl StorageHelper for Client, aws_sdk_s3 *)

upload_from_bytes_aws(objs, bucket, key, mime, data, f) ==
    LET req == StorageReq("put_object", bucket, key, mime, data)
        ok == Accepts(objs, req, f)
    IN  Out(<<Sent(req, ok)>>, ~ok, IF ok THEN Ok(Unit) ELSE StorageErr("put_object"))

\* while let Ok(Some(bytes)) = d.body.try_next().await { res.write_all(&bytes) }
RECURSIVE ReadLoop(_, _)
ReadLoop(stream, res) ==
    IF stream = <<>> THEN res
    ELSE LET e == Head(stream)
         IN  IF IsOk(e) /\ IsSome(e.val)
             THEN ReadLoop(Tail(stream), res \o Unwrap(e.val))
             ELSE res

download_to_bytes_aws(objs, bucket, key, f) ==
    LET req == StorageReq("get_object", bucket, key, None, <<>>)
        ok == Accepts(objs, req, f)
    IN  IF ok
        THEN Out(<<Sent(req, TRUE)>>, f.cut >= 0,
                 Ok(ReadLoop(BodyStream(objs[<<bucket, key>>].data, f), <<>>)))
        ELSE Out(<<Sent(req, FALSE)>>, TRUE, StorageErr("get_object"))

\* faulty variant: a failed delete is sent once more
delete_file_aws_retry(objs, bucket, key, f) ==
    LET req == StorageReq("s3_delete_object", bucket, key, None, <<>>)
        ok == Accepts(objs, req, f)
    IN  IF ok THEN Out(<<Sent(req, TRUE)>>, FALSE, Ok(Unit))
        ELSE Out(<<Sent(req, FALSE), Sent(req, FALSE)>>, TRUE, StorageErr("delete_object"))

delete_file_aws(objs, bucket, key, f) ==
    LET req == StorageReq("s3_delete_object", bucket, key, None, <<>>)
        ok == Accepts(objs, req, f)
    IN  Out(<<Sent(req, ok)>>, ~ok, IF ok THEN Ok(Unit) ELSE StorageErr("delete_object"))

(* the trait's required methods, dispatched on the client *)

upload_from_bytes(slf, objs, bucket, key, mime, data, f) ==
    IF slf = "gcs" THEN upload_from_bytes_gcp(objs, bucket, key, mime, data, f)
    ELSE upload_from_bytes_aws(objs, bucket, key, mime, data, f)

download_to_bytes(slf, objs, bucket, key, f) ==
    IF slf = "gcs" THEN download_to_bytes_gcp(objs, bucket, key, f)
    ELSE download_to_bytes_aws(objs, bucket, key, f)

delete_file(slf, objs, bucket, key, f) ==
    IF slf = "gcs" THEN delete_file_gcp(objs, bucket, key, f)
    ELSE delete_file_aws(objs, bucket, key, f)

----------------------------------------------------------------------------
(* storage.rs: the default methods of StorageHelper *)

IoErr(msg) == Err("StorageClient", "IO", msg)

FileOut(reqs, failed, result, fsys, got) ==
    [reqs |-> reqs, failed |-> failed, result |-> result, fs |-> fsys, got |-> got]

\* faulty variant: a file that cannot be read is uploaded as an empty object
upload_file_empty(slf, objs, fsys, bucket, key, path, f) ==
    LET data == ReadFile(fsys, path)
        up == upload_from_bytes(slf, objs, bucket, key, None, data.data, f)
    IN  IF IsErr(up.result) THEN up ELSE Out(up.reqs, up.failed, Ok(Unit))

upload_file(slf, objs, fsys, bucket, key, path, f) ==
    LET data == ReadFile(fsys, path)
    IN  IF ~data.ok THEN Out(<<>>, FALSE, IoErr("read"))
        ELSE LET up == upload_from_bytes(slf, objs, bucket, key, None, data.data, f)
             IN  IF IsErr(up.result) THEN up ELSE Out(up.reqs, up.failed, Ok(Unit))

\* faulty variant: the file name of the key alone is joined
DestPathFileName(path_dir, key) == Append(path_dir, key[Len(key)])

\* let path = path_dir.join(key)
DestPath(path_dir, key) == Join(path_dir, key)

\* faulty variant: path_dir is not checked to be a directory
download_file_unchecked(slf, objs, fsys, bucket, key, path_dir, f, io) ==
    LET made == IF ~Exists(fsys, path_dir) THEN CreateDirAll(fsys, path_dir, io)
                ELSE [ok |-> TRUE, fs |-> fsys]
        down == download_to_bytes(slf, objs, bucket, key, f)
        path == DestPath(path_dir, key)
        parent == Parent(path)
        dirs == IF IsSome(parent) THEN CreateDirAll(made.fs, Unwrap(parent), io)
                ELSE [ok |-> TRUE, fs |-> made.fs]
        wrote == WriteFile(dirs.fs, path, down.result.val, io)
    IN  IF ~made.ok THEN FileOut(<<>>, FALSE, IoErr("create_dir_all"), made.fs, None)
        ELSE IF IsErr(down.result)
        THEN FileOut(down.reqs, down.failed, down.result, made.fs, None)
        ELSE IF ~dirs.ok
        THEN FileOut(down.reqs, down.failed, IoErr("create_dir_all"), dirs.fs,
                     Some(down.result.val))
        ELSE IF ~wrote.ok
        THEN FileOut(down.reqs, down.failed, IoErr("write"), wrote.fs,
                     Some(down.result.val))
        ELSE FileOut(down.reqs, down.failed, Ok(path), wrote.fs, Some(down.result.val))

download_file(slf, objs, fsys, bucket, key, path_dir, f, io) ==
    LET made == IF ~Exists(fsys, path_dir) THEN CreateDirAll(fsys, path_dir, io)
                ELSE [ok |-> TRUE, fs |-> fsys]
        down == download_to_bytes(slf, objs, bucket, key, f)
        path == DestPath(path_dir, key)
        parent == Parent(path)
        dirs == IF IsSome(parent) THEN CreateDirAll(made.fs, Unwrap(parent), io)
                ELSE [ok |-> TRUE, fs |-> made.fs]
        wrote == WriteFile(dirs.fs, path, down.result.val, io)
    IN  IF ~made.ok THEN FileOut(<<>>, FALSE, IoErr("create_dir_all"), made.fs, None)
        ELSE IF ~IsDir(made.fs, path_dir)
        THEN FileOut(<<>>, FALSE, Err("StorageClient", "Other", "is not a directory"),
                     made.fs, None)
        ELSE IF IsErr(down.result)
        THEN FileOut(down.reqs, down.failed, down.result, made.fs, None)
        ELSE IF ~dirs.ok
        THEN FileOut(down.reqs, down.failed, IoErr("create_dir_all"), dirs.fs,
                     Some(down.result.val))
        ELSE IF ~wrote.ok
        THEN FileOut(down.reqs, down.failed, IoErr("write"), wrote.fs,
                     Some(down.result.val))
        ELSE FileOut(down.reqs, down.failed, Ok(path), wrote.fs, Some(down.result.val))

\* infer::get: the first signature the content starts with (the sniffer's
\* table, here its jpg and Z entries)
StartsWith(file, sig) == Len(file) >= Len(sig) /\ Prefix(file, Len(sig)) = sig

InferGet(file) ==
    IF Len(file) > 2 /\ StartsWith(file, <<255, 216, 255>>) THEN Some("jpg")
    ELSE IF Len(file) > 1 /\ (StartsWith(file, <<31, 160>>) \/ StartsWith(file, <<31, 157>>))
    THEN Some("Z")
    ELSE None

TypeErr(msg) == Err("StorageClient", "InvalidFileType", msg)

\* faulty variant: an unrecognised content passes
valid_file_type_lenient(file, expected) ==
    LET file_type == InferGet(file)
    IN  IF IsSome(file_type) /\ Unwrap(file_type) /= expected
        THEN Out(<<>>, FALSE,
                 TypeErr(<<"File type is not valid", expected, Unwrap(file_type)>>))
        ELSE Out(<<>>, FALSE, Ok(Unit))

valid_file_type(file, expected) ==
    LET file_type == InferGet(file)
    IN  IF IsNone(file_type) THEN Out(<<>>, FALSE, TypeErr(<<"Failed to get file type">>))
        ELSE IF Unwrap(file_type) /= expected
        THEN Out(<<>>, FALSE,
                 TypeErr(<<"File type is not valid", expected, Unwrap(file_type)>>))
        ELSE Out(<<>>, FALSE, Ok(Unit))

SniffBytes == {255, 216, 31, 157}
Files == SeqsUpTo(SniffBytes, MaxFileLen)
Extensions == {"jpg", "Z", "png"}

----------------------------------------------------------------------------
(* The calls on a storage client *)

Call(op, args, out, got) ==
    [op |-> op, args |-> args, reqs |-> out.reqs, failed |-> out.failed,
     result |-> out.result, got |-> got]

NoCall == Call("none", <<>>, Out(<<>>, FALSE, Ok(Unit)), None)

Track(up, id, result, data, op) ==
    IF IsOk(result) THEN Put(up, id, [data |-> data, op |-> op]) ELSE Drop(up, id)

UploadFromBytes ==
    /\ self \in StorageClients /\ calls < MaxCalls
    /\ \E id \in ObjectIds, mime \in Mimes, data \in Data, f \in {NoFault, SendFails} :
          LET bucket == id[1]
              key == id[2]
              out == upload_from_bytes(self, objects, bucket, key, mime, data, f)
          IN  /\ objects' = ServeStorage(objects, out.reqs)
              /\ last' = Call("upload_from_bytes",
                              [bucket |-> bucket, key |-> key, mime |-> mime, data |-> data],
                              out, None)
              /\ uploaded' = Track(uploaded, <<bucket, key>>, out.result, data,
                                   "upload_from_bytes")
    /\ calls' = calls + 1
    /\ UNCHANGED <<self, fs, secrets, queued, created>>

DownloadToBytes ==
    /\ self \in StorageClients /\ calls < MaxCalls
    /\ \E id \in ObjectIds :
          \E f \in FaultsFor(objects, id[1], id[2]) :
             LET bucket == id[1]
                 key == id[2]
                 out == download_to_bytes(self, objects, bucket, key, f)
             IN  /\ objects' = ServeStorage(objects, out.reqs)
                 /\ last' = Call("download_to_bytes", [bucket |-> bucket, key |-> key], out,
                                 IF IsOk(out.result) THEN Some(out.result.val) ELSE None)
    /\ calls' = calls + 1
    /\ UNCHANGED <<self, fs, secrets, queued, uploaded, created>>

DeleteFile ==
    /\ self \in StorageClients /\ calls < MaxCalls
    /\ \E id \in ObjectIds, f \in {NoFault, SendFails} :
          LET bucket == id[1]
              key == id[2]
              out == delete_file(self, objects, bucket, key, f)
          IN  /\ objects' = ServeStorage(objects, out.reqs)
              /\ last' = Call("delete_file", [bucket |-> bucket, key |-> key], out, None)
              /\ uploaded' = Drop(uploaded, <<bucket, key>>)
    /\ calls' = calls + 1
    /\ UNCHANGED <<self, fs, secrets, queued, created>>

UploadFile ==
    /\ self \in StorageClients /\ calls < MaxCalls
    /\ \E id \in ObjectIds, path \in LocalPaths, f \in {NoFault, SendFails} :
          LET bucket == id[1]
              key == id[2]
              out == upload_file(self, objects, fs, bucket, key, path, f)
              src == ReadFile(fs, path)
          IN  /\ objects' = ServeStorage(objects, out.reqs)
              /\ last' = Call("upload_file",
                              [bucket |-> bucket, key |-> key, path |-> path,
                               file |-> IF src.ok THEN Some(src.data) ELSE None,
                               before |-> objects],
                              out, None)
              /\ uploaded' = IF out.reqs = <<>> THEN uploaded
                             ELSE Track(uploaded, <<bucket, key>>, out.result, src.data,
                                        "upload_file")
    /\ calls' = calls + 1
    /\ UNCHANGED <<self, fs, secrets, queued, created>>

DownloadFile ==
    /\ self \in StorageClients /\ calls < MaxCalls
    /\ \E id \in ObjectIds, path_dir \in PathDirs, io \in IoFaults :
          \E f \in FaultsFor(objects, id[1], id[2]) :
             LET bucket == id[1]
                 key == id[2]
                 out == download_file(self, objects, fs, bucket, key, path_dir, f, io)
             IN  /\ objects' = ServeStorage(objects, out.reqs)
                 /\ fs' = out.fs
                 /\ last' = Call("download_file",
                                 [bucket |-> bucket, key |-> key, path_dir |-> path_dir,
                                  before |-> fs],
                                 out, out.got)
    /\ calls' = calls + 1
    /\ UNCHANGED <<self, secrets, queued, uploaded, created>>

ValidFileType ==
    /\ self \in StorageClients /\ calls < MaxCalls
    /\ \E file \in Files, expected \in Extensions :
          last' = Call("valid_file_type", [file |-> file, expected |-> expected],
                       valid_file_type(file, expected), None)
    /\ calls' = calls + 1
    /\ UNCHANGED <<self, objects, fs, secrets, queued, uploaded, created>>

StorageNext ==
    \/ UploadFromBytes
    \/ DownloadToBytes
    \/ DeleteFile
    \/ UploadFile
    \/ DownloadFile

----------------------------------------------------------------------------
(* The secret stores behind the secret manager clients.                    *)
(* Google Secret Manager: <<project, name>> -> the payloads of the         *)
(* versions, oldest first. AWS Secrets Manager: <<name>> -> the current    *)
(* value, a string or a binary; names are unique in the account.           *)
(* A fault f: f.send = FALSE, the (first) request fails; f.add = FALSE,    *)
(* the add-version request fails; f.resp, the shape of an access response. *)

SecretClients == {"gsm", "asm"}

Projects == {"p1", "p2"}
SecretNames == {"n1", "old"}
\* secret values as strings of code points: "", "A", "Aé"
Values == {<<>>, <<65>>, <<65, 233>>}
Versions == {"1", "2", "latest", "AWSCURRENT"}

\* str::as_bytes: the UTF-8 encoding of a string
RECURSIVE Utf8(_)
Utf8(str) ==
    IF str = <<>> THEN <<>>
    ELSE LET c == Head(str)
         IN  (IF c < 128 THEN <<c>> ELSE <<192 + (c \div 64), 128 + (c % 64)>>)
                 \o Utf8(Tail(str))

InitSecrets(slf) ==
    IF slf = "gsm" THEN (<<"p1", "old">> :> <<[data |-> Some(<<1>>)], [data |-> Some(<<2>>)]>>)
    ELSE IF slf = "asm" THEN (<<"old">> :> [string |-> None, binary |-> Some(<<1, 2>>)])
    ELSE <<>>

SecretFaults ==
    {[send |-> TRUE, add |-> TRUE, resp |-> "full"],
     [send |-> FALSE, add |-> TRUE, resp |-> "full"],
     [send |-> TRUE, add |-> FALSE, resp |-> "full"],
     [send |-> TRUE, add |-> TRUE, resp |-> "nopayload"],
     [send |-> TRUE, add |-> TRUE, resp |-> "nodata"]}

\* the version a resource name projects/p/secrets/n/versions/v names, 0 if none
VersionOf(versions, v) ==
    IF v = "latest" THEN Len(versions)
    ELSE IF v = "1" /\ Len(versions) >= 1 THEN 1
    ELSE IF v = "2" /\ Len(versions) >= 2 THEN 2
    ELSE 0

\* projects.secrets.versions.access
GsmAccess(store, name, f) ==
    LET id == <<name[2], name[4]>>
        n == IF id \in DOMAIN store THEN VersionOf(store[id], name[6]) ELSE 0
    IN  IF ~f.send \/ n = 0 THEN [ok |-> FALSE, payload |-> None]
        ELSE IF f.resp = "nopayload" THEN [ok |-> TRUE, payload |-> None]
        ELSE IF f.resp = "nodata" THEN [ok |-> TRUE, payload |-> Some([data |-> None])]
        ELSE [ok |-> TRUE, payload |-> Some(store[id][n])]

\* projects.secrets.create, projects.secrets.addVersion
GsmCreateOk(store, parent, secret_id, f) == f.send /\ <<parent[2], secret_id>> \notin DOMAIN store
GsmAddOk(store, parent, f) == f.add /\ <<parent[2], parent[4]>> \in DOMAIN store

\* GetSecretValue, CreateSecret
AsmGet(store, secret_id, stage, f) ==
    IF ~f.send \/ <<secret_id>> \notin DOMAIN store
           \/ (IsSome(stage) /\ Unwrap(stage) /= "AWSCURRENT")
    THEN [ok |-> FALSE, secret_string |-> None, secret_binary |-> None]
    ELSE [ok |-> TRUE, secret_string |-> store[<<secret_id>>].string,
          secret_binary |-> store[<<secret_id>>].binary]

AsmCreateOk(store, name, f) == f.send /\ <<name>> \notin DOMAIN store

\* the store after the requests of one call
RECURSIVE ServeSecrets(_, _)
ServeSecrets(store, reqs) ==
    IF reqs = <<>> THEN store
    ELSE LET r == Head(reqs).req
             nxt == IF ~Head(reqs).ok THEN store
                    ELSE IF r.api = "secrets_create"
                    THEN Put(store, <<r.parent[2], r.secret_id>>, <<>>)
                    ELSE IF r.api = "secrets_add_version"
                    THEN LET id == <<r.parent[2], r.parent[4]>>
                         IN  Put(store, id, Append(store[id], Unwrap(r.payload)))
                    ELSE IF r.api = "create_secret"
                    THEN Put(store, <<r.name>>,
                             [string |-> Some(r.secret_string), binary |-> None])
                    ELSE store
         IN  ServeSecrets(nxt, Tail(reqs))

SecretErr(kind, msg) == Err("SecretManager", kind, msg)

----------------------------------------------------------------------------
(* secret.rs: impl SecretManagerHelper for aws_sdk_secretsmanager::Client *)

get_secret_aws(store, project, secret, f) ==
    LET req == [api |-> "get_secret_value", secret_id |-> secret, version_stage |-> None]
        res == AsmGet(store, req.secret_id, req.version_stage, f)
    IN  IF ~res.ok THEN Out(<<Sent(req, FALSE)>>, TRUE, SecretErr("SecretManager", "sdk"))
        ELSE IF IsNone(res.secret_string)
        THEN Out(<<Sent(req, TRUE)>>, FALSE, SecretErr("SecretManager", "invalid secret"))
        ELSE Out(<<Sent(req, TRUE)>>, FALSE, Ok(Utf8(Unwrap(res.secret_string))))

get_secret_version_aws(store, project, secret, version, f) ==
    LET req == [api |-> "get_secret_value", secret_id |-> secret,
                version_stage |-> Some(version)]
        res == AsmGet(store, req.secret_id, req.version_stage, f)
    IN  IF ~res.ok THEN Out(<<Sent(req, FALSE)>>, TRUE, SecretErr("SecretManager", "sdk"))
        ELSE IF IsNone(res.secret_binary)
        THEN Out(<<Sent(req, TRUE)>>, FALSE, SecretErr("SecretManager", "invalid secret"))
        ELSE Out(<<Sent(req, TRUE)>>, FALSE, Ok(Unwrap(res.secret_binary)))

create_secret_aws(store, project, secret_name, secret_val, f) ==
    LET req == [api |-> "create_secret", name |-> secret_name, secret_string |-> secret_val]
        ok == AsmCreateOk(store, req.name, f)
    IN  Out(<<Sent(req, ok)>>, ~ok,
            IF ok THEN Ok(Unit) ELSE SecretErr("SecretManager", "sdk"))

(* secret.rs: impl SecretManagerHelper for SecretManager (google_secretmanager1) *)

\* faulty variant: the two missing-part errors are exchanged
PayloadDataSwapped(s) ==
    IF IsSome(s.payload)
    THEN IF IsSome(Unwrap(s.payload).data) THEN Ok(Unwrap(Unwrap(s.payload).data))
         ELSE SecretErr("NoPayload", "")
    ELSE SecretErr("NoData", "")

\* the payload of an AccessSecretVersionResponse
PayloadData(s) ==
    IF IsSome(s.payload)
    THEN IF IsSome(Unwrap(s.payload).data) THEN Ok(Unwrap(Unwrap(s.payload).data))
         ELSE SecretErr("NoData", "")
    ELSE SecretErr("NoPayload", "")

get_secret_gcp(store, project, secret, f) ==
    LET secret_name == <<"projects", project, "secrets", secret, "versions", "latest">>
        req == [api |-> "secrets_versions_access", name |-> secret_name]
        s == GsmAccess(store, req.name, f)
    IN  IF ~s.ok THEN Out(<<Sent(req, FALSE)>>, TRUE, SecretErr("SecretManager", "sdk"))
        ELSE Out(<<Sent(req, TRUE)>>, FALSE, PayloadData(s))

get_secret_version_gcp(store, project, secret, version, f) ==
    LET secret_name == <<"projects", project, "secrets", secret, "versions", version>>
        req == [api |-> "secrets_versions_access", name |-> secret_name]
        s == GsmAccess(store, req.name, f)
    IN  IF ~s.ok THEN Out(<<Sent(req, FALSE)>>, TRUE, SecretErr("SecretManager", "sdk"))
        ELSE Out(<<Sent(req, TRUE)>>, FALSE, PayloadData(s))

\* faulty variant: the code points of the value are stored as its bytes
create_secret_gcp_raw(store, project, secret_name, secret_val, f) ==
    LET create == [api |-> "secrets_create", parent |-> <<"projects", project>>,
                   secret_id |-> secret_name, replication |-> "automatic"]
        made == GsmCreateOk(store, create.parent, create.secret_id, f)
        add == [api |-> "secrets_add_version",
                parent |-> <<"projects", project, "secrets", secret_name>>,
                payload |-> Some([data |-> Some(secret_val)])]
        after == ServeSecrets(store, <<Sent(create, made)>>)
        added == GsmAddOk(after, add.parent, f)
    IN  IF ~made THEN Out(<<Sent(create, FALSE)>>, TRUE, SecretErr("SecretManager", "sdk"))
        ELSE IF ~added
        THEN Out(<<Sent(create, TRUE), Sent(add, FALSE)>>, TRUE,
                 SecretErr("SecretManager", "sdk"))
        ELSE Out(<<Sent(create, TRUE), Sent(add, TRUE)>>, FALSE, Ok(Unit))

create_secret_gcp(store, project, secret_name, secret_val, f) ==
    LET create == [api |-> "secrets_create", parent |-> <<"projects", project>>,
                   secret_id |-> secret_name, replication |-> "automatic"]
        made == GsmCreateOk(store, create.parent, create.secret_id, f)
        vrq == [data |-> Some(Utf8(secret_val))]
        add == [api |-> "secrets_add_version",
                parent |-> <<"projects", project, "secrets", secret_name>>,
                payload |-> Some(vrq)]
        after == ServeSecrets(store, <<Sent(create, made)>>)
        added == GsmAddOk(after, add.parent, f)
    IN  IF ~made THEN Out(<<Sent(create, FALSE)>>, TRUE, SecretErr("SecretManager", "sdk"))
        ELSE IF ~added
        THEN Out(<<Sent(create, TRUE), Sent(add, FALSE)>>, TRUE,
                 SecretErr("SecretManager", "sdk"))
        ELSE Out(<<Sent(create, TRUE), Sent(add, TRUE)>>, FALSE, Ok(Unit))

(* the trait's methods, dispatched on the client *)

get_secret(slf, store, project, secret, f) ==
    IF slf = "gsm" THEN get_secret_gcp(store, project, secret, f)
    ELSE get_secret_aws(store, project, secret, f)

get_secret_version(slf, store, project, secret, version, f) ==
    IF slf = "gsm" THEN get_secret_version_gcp(store, project, secret, version, f)
    ELSE get_secret_version_aws(store, project, secret, version, f)

create_secret(slf, store, project, secret_name, secret_val, f) ==
    IF slf = "gsm" THEN create_secret_gcp(store, project, secret_name, secret_val, f)
    ELSE create_secret_aws(store, project, secret_name, secret_val, f)

(* The calls on a secret manager client *)

GetFaults == {f \in SecretFaults : f.add}
CreateFaults == {f \in SecretFaults : f.resp = "full"}

GetSecret ==
    /\ self \in SecretClients /\ calls < MaxCalls
    /\ \E project \in Projects, secret \in SecretNames, f \in GetFaults :
          LET out == get_secret(self, secrets, project, secret, f)
          IN  /\ secrets' = ServeSecrets(secrets, out.reqs)
              /\ last' = Call("get_secret",
                              [project |-> project, secret |-> secret, fault |-> f],
                              out, None)
    /\ calls' = calls + 1
    /\ UNCHANGED <<self, objects, fs, queued, uploaded, created>>

GetSecretVersion ==
    /\ self \in SecretClients /\ calls < MaxCalls
    /\ \E project \in Projects, secret \in SecretNames, version \in Versions,
          f \in GetFaults :
          LET out == get_secret_version(self, secrets, project, secret, version, f)
          IN  /\ secrets' = ServeSecrets(secrets, out.reqs)
              /\ last' = Call("get_secret_version",
                              [project |-> project, secret |-> secret, version |-> version,
                               fault |-> f],
                              out, None)
    /\ calls' = calls + 1
    /\ UNCHANGED <<self, objects, fs, queued, uploaded, created>>

CreateSecret ==
    /\ self \in SecretClients /\ calls < MaxCalls
    /\ \E project \in Projects, secret_name \in SecretNames, secret_val \in Values,
          f \in CreateFaults :
          LET out == create_secret(self, secrets, project, secret_name, secret_val, f)
          IN  /\ secrets' = ServeSecrets(secrets, out.reqs)
              /\ last' = Call("create_secret",
                              [project |-> project, secret_name |-> secret_name,
                               secret_val |-> secret_val, before |-> secrets],
                              out, None)
              /\ created' = IF IsOk(out.result)
                            THEN Put(created, <<project, secret_name>>, secret_val)
                            ELSE created
    /\ calls' = calls + 1
    /\ UNCHANGED <<self, objects, fs, queued, uploaded>>

SecretNext ==
    \/ GetSecret
    \/ GetSecretVersion
    \/ CreateSecret

----------------------------------------------------------------------------
(* task.rs: TaskHelper and CloudTaskHelper over google_cloudtasks2.        *)
(* A queue holds the names of its named tasks; the service refuses a task  *)
(* whose name the queue already holds.                                     *)

TaskClients == {"tasks"}

Queues == {"q1", "q2"}
Services == {"https://a", "https://b"}
Methods == {"POST"}
Bodies == {None, Some(<<1, 2>>)}
HeaderMaps == {None, Some([ContentType |-> "json"])}
TaskNames == {None, Some("t1")}
ScheduleTimes == {None, Some(5)}
OidcTokens == {None, Some([audience |-> None, service_account_email |-> Some("sa")])}
ResViews == {None, Some("FULL")}

\* HttpRequest::default(), Task::default()
DefaultHttpRequest ==
    [body |-> None, headers |-> None, http_method |-> None, oauth_token |-> None,
     oidc_token |-> None, url |-> None]

DefaultTask ==
    [app_engine_http_request |-> None, create_time |-> None, dispatch_count |-> None,
     dispatch_deadline |-> None, first_attempt |-> None, http_request |-> None,
     last_attempt |-> None, name |-> None, response_count |-> None,
     schedule_time |-> None, view |-> None]

\* faulty variant: the headers are left out of the request
new_task_no_headers(service, method, body, headers, name, schedule_time, oidc_token) ==
    LET http_request == [DefaultHttpRequest EXCEPT !.url = Some(service),
                                                   !.body = body,
                                                   !.http_method = Some(method),
                                                   !.oidc_token = oidc_token]
    IN  [DefaultTask EXCEPT !.name = name,
                            !.http_request = Some(http_request),
                            !.schedule_time = schedule_time]

new_task(service, method, body, headers, name, schedule_time, oidc_token) ==
    LET http_request == [DefaultHttpRequest EXCEPT !.url = Some(service),
                                                   !.body = body,
                                                   !.http_method = Some(method),
                                                   !.oidc_token = oidc_token,
                                                   !.headers = headers]
    IN  [DefaultTask EXCEPT !.name = name,
                            !.http_request = Some(http_request),
                            !.schedule_time = schedule_time]

\* projects.locations.queues.tasks.create: the response and the task as created
TaskCreateOk(qs, rq, parent, send) ==
    /\ send
    /\ IsSome(rq.task)
    /\ IsSome(Unwrap(rq.task).name) => Unwrap(Unwrap(rq.task).name) \notin qs[parent]

CreatedTask(rq) ==
    [Unwrap(rq.task) EXCEPT !.create_time = Some(1),
                            !.view = IF IsSome(rq.response_view) THEN rq.response_view
                                     ELSE Some("BASIC")]

ServeTasks(qs, reqs) ==
    IF reqs = <<>> \/ ~Head(reqs).ok THEN qs
    ELSE LET r == Head(reqs).req
             task == Unwrap(r.rq.task)
         IN  IF IsSome(task.name)
             THEN [qs EXCEPT ![r.parent] = @ \cup {Unwrap(task.name)}]
             ELSE qs

push_task(qs, queue, task, res_view, send) ==
    LET rq == [task |-> Some(task), response_view |-> res_view]
        req == [api |-> "tasks_create", rq |-> rq, parent |-> queue]
        ok == TaskCreateOk(qs, req.rq, req.parent, send)
    IN  Out(<<Sent(req, ok)>>, ~ok,
            IF ok THEN Ok(<<200, CreatedTask(req.rq)>>)
            ELSE Err("TasksClient", "CloudTasks", "sdk"))

\* faulty variant: the response view is not passed on
push_no_view(qs, queue, service, method, body, headers, name, schedule_time, oidc_token, res_view, send) ==
    LET task == new_task(service, method, body, headers, name, schedule_time, oidc_token)
    IN  push_task(qs, queue, task, None, send)

push(qs, queue, service, method, body, headers, name, schedule_time, oidc_token, res_view, send) ==
    LET task == new_task(service, method, body, headers, name, schedule_time, oidc_token)
    IN  push_task(qs, queue, task, res_view, send)

(* The calls on Task and on a CloudTasks client *)

\* the tasks a caller hands to push_task
Tasks ==
    {DefaultTask,
     new_task("https://a", "POST", None, None, None, None, None),
     new_task("https://b", "POST", Some(<<1, 2>>), None, Some("t1"), None, None),
     [DefaultTask EXCEPT !.name = Some("t1"), !.dispatch_count = Some(0)]}

NewTask ==
    /\ self \in TaskClients /\ calls < MaxCalls
    /\ \E service \in Services, method \in Methods, body \in Bodies,
          headers \in HeaderMaps, name \in TaskNames, schedule_time \in ScheduleTimes,
          oidc_token \in OidcTokens :
          last' = Call("new_task",
                       [service |-> service, method |-> method, body |-> body,
                        headers |-> headers, name |-> name,
                        schedule_time |-> schedule_time, oidc_token |-> oidc_token],
                       Out(<<>>, FALSE,
                           Ok(new_task(service, method, body, headers, name,
                                       schedule_time, oidc_token))),
                       None)
    /\ calls' = calls + 1
    /\ UNCHANGED <<self, objects, fs, secrets, queued, uploaded, created>>

PushTask ==
    /\ self \in TaskClients /\ calls < MaxCalls
    /\ \E queue \in Queues, task \in Tasks, res_view \in ResViews, send \in BOOLEAN :
          LET out == push_task(queued, queue, task, res_view, send)
          IN  /\ queued' = ServeTasks(queued, out.reqs)
              /\ last' = Call("push_task",
                              [queue |-> queue, task |-> task, res_view |-> res_view,
                               send |-> send, before |-> queued],
                              out, None)
    /\ calls' = calls + 1
    /\ UNCHANGED <<self, objects, fs, secrets, uploaded, created>>

Push ==
    /\ self \in TaskClients /\ calls < MaxCalls
    /\ \E queue \in Queues, service \in Services, method \in Methods, body \in Bodies,
          headers \in HeaderMaps, name \in TaskNames, schedule_time \in ScheduleTimes,
          oidc_token \in OidcTokens, res_view \in ResViews, send \in BOOLEAN :
          LET out == push(queued, queue, service, method, body, headers, name,
                          schedule_time, oidc_token, res_view, send)
          IN  /\ queued' = ServeTasks(queued, out.reqs)
              /\ last' = Call("push",
                              [queue |-> queue, service |-> service, method |-> method,
                               body |-> body, headers |-> headers, name |-> name,
                               schedule_time |-> schedule_time,
                               oidc_token |-> oidc_token, res_view |-> res_view,
                               send |-> send, before |-> queued],
                              out, None)
    /\ calls' = calls + 1
    /\ UNCHANGED <<self, objects, fs, secrets, uploaded, created>>

TaskNext ==
    \/ NewTask
    \/ PushTask
    \/ Push

----------------------------------------------------------------------------
(* Specifications. A behaviour is the calls made on one client.            *)

Clients == StorageClients \cup SecretClients \cup TaskClients

InitOn(clients) ==
    /\ self \in clients
    /\ objects = <<>>
    /\ fs = InitFs
    /\ secrets = InitSecrets(self)
    /\ queued = [q \in Queues |-> {}]
    /\ last = NoCall
    /\ calls = 0
    /\ uploaded = <<>>
    /\ created = <<>>

Init == InitOn(Clients)
InitStorage == InitOn(StorageClients)
InitSecret == InitOn(SecretClients)
InitTask == InitOn(TaskClients)

Next ==
    \/ StorageNext
    \/ ValidFileType
    \/ SecretNext
    \/ TaskNext

\* every operation, on any of the clients
Spec == Init /\ [][Next]_vars

\* the object store and the local files, on a storage client
SpecStorage == InitStorage /\ [][StorageNext]_vars

\* the content sniffer's check, applied to files of up to MaxFileLen bytes
SpecSniff == InitStorage /\ [][ValidFileType]_vars

\* the secret store, on a secret manager client
SpecSecret == InitSecret /\ [][SecretNext]_vars

\* task construction and dispatch
SpecTask == InitTask /\ [][TaskNext]_vars

\* the request-issuing methods of the three helper traits
TraitNext ==
    \/ UploadFromBytes
    \/ DownloadToBytes
    \/ DeleteFile
    \/ GetSecret
    \/ GetSecretVersion
    \/ CreateSecret
    \/ PushTask
    \/ Push

SpecTrait == Init /\ [][TraitNext]_vars

----------------------------------------------------------------------------
(* Properties *)

LastId == <<last.args.bucket, last.args.key>>

\* C1: a download_to_bytes that returns Ok, after an upload of the same
\* (bucket, key) returned Ok and with no other upload or delete of it in
\* between, returns exactly the uploaded bytes.
C1_StorageRoundTrip ==
    (last.op = "download_to_bytes" /\ IsOk(last.result) /\ LastId \in DOMAIN uploaded)
        => last.result.val = uploaded[LastId].data

LastSecret == <<last.args.project, last.args.secret>>

\* C2 as stated: after create_secret(project, name, value) returned Ok, a
\* following get_secret(project, name) returns Ok with the UTF-8 bytes of value.
C2_SecretRoundTrip ==
    (last.op = "get_secret" /\ LastSecret \in DOMAIN created)
        => (IsOk(last.result) /\ last.result.val = Utf8(created[LastSecret]))

\* C2 amended: after create_secret(project, name, value) returned Ok, a
\* following get_secret(project, name) that returns Ok returns exactly the
\* UTF-8 bytes of value (the request of get_secret itself may still fail).
C2_SecretRoundTripWhenOk ==
    (last.op = "get_secret" /\ LastSecret \in DOMAIN created /\ IsOk(last.result))
        => last.result.val = Utf8(created[LastSecret])

\* C2 witness: a created secret with a two-byte character is fetched back
C2_Witness ==
    /\ last.op = "get_secret" /\ IsOk(last.result)
    /\ LastSecret \in DOMAIN created
    /\ created[LastSecret] = <<65, 233>>
    /\ last.result.val = <<65, 195, 169>>

\* C3: new_task returns a Task with http_request present, url = Some(service),
\* http_method = Some(method), body, headers, oidc_token, name and schedule_time
\* as given (None stays None), and every other field at its default.
C3_NewTaskFields ==
    last.op = "new_task" =>
        last.result.val =
            [app_engine_http_request |-> None, create_time |-> None,
             dispatch_count |-> None, dispatch_deadline |-> None,
             first_attempt |-> None,
             http_request |->
                 Some([body |-> last.args.body, headers |-> last.args.headers,
                       http_method |-> Some(last.args.method), oauth_token |-> None,
                       oidc_token |-> last.args.oidc_token,
                       url |-> Some(last.args.service)]),
             last_attempt |-> None, name |-> last.args.name, response_count |-> None,
             schedule_time |-> last.args.schedule_time, view |-> None]

\* C3 witness: a task built with some optional arguments given and some None
C3_Witness ==
    /\ last.op = "new_task"
    /\ IsSome(last.args.headers) /\ IsSome(last.args.name) /\ IsNone(last.args.body)
    /\ IsNone(last.args.oidc_token) /\ IsSome(last.args.schedule_time)
    /\ Unwrap(last.result.val.http_request).headers = last.args.headers
    /\ IsNone(Unwrap(last.result.val.http_request).body)

\* C4: a call in which an SDK request or a read of the response body failed
\* returns Err.
C4_FailuresSurface == last.failed => IsErr(last.result)

TraitOps ==
    {"get_secret", "get_secret_version", "create_secret", "upload_from_bytes",
     "download_to_bytes", "delete_file", "push_task", "push"}

\* C5 as stated: every call of a request-issuing trait method issues exactly
\* one request.
C5_OneRequest == last.op \in TraitOps => Len(last.reqs) = 1

\* a request that failed is the last one of its call
NoneAfterFailure == \A i \in 1..(Len(last.reqs) - 1) : last.reqs[i].ok

\* C5 amended: every call issues exactly one request, except create_secret on
\* the Google client, which issues secrets_create and then, only when that
\* succeeded, one secrets_add_version (both on the success path); no request
\* follows a failed one.
C5_RequestCount ==
    last.op \in TraitOps =>
        /\ NoneAfterFailure
        /\ IF last.op = "create_secret" /\ self = "gsm"
           THEN /\ Len(last.reqs) \in {1, 2}
                /\ last.reqs[1].req.api = "secrets_create"
                /\ Len(last.reqs) = 2 <=> last.reqs[1].ok
                /\ Len(last.reqs) = 2 => last.reqs[2].req.api = "secrets_add_version"
                /\ IsOk(last.result) => Len(last.reqs) = 2
           ELSE Len(last.reqs) = 1

\* C5 witness: a Google create_secret that returned Ok after its two requests
C5_Witness ==
    /\ last.op = "create_secret" /\ self = "gsm" /\ IsOk(last.result)
    /\ Len(last.reqs) = 2 /\ last.reqs[1].ok /\ last.reqs[2].ok

\* the secrets stored under a project: those create_secret stored, and those
\* the store held at the start (which, on AWS, name no project)
StoredUnder(project, name) ==
    \/ <<project, name>> \in DOMAIN created
    \/ IF self = "gsm" THEN <<project, name>> \in DOMAIN InitSecrets(self)
       ELSE <<name>> \in DOMAIN InitSecrets(self)

\* C6: a get_secret or get_secret_version with project p returns the payload
\* of a secret stored under p (never one stored under another project).
C6_ProjectScoped ==
    (last.op \in {"get_secret", "get_secret_version"} /\ IsOk(last.result))
        => /\ StoredUnder(last.args.project, last.args.secret)
           /\ LastSecret \in DOMAIN created => last.result.val = Utf8(created[LastSecret])

\* C7: when download_file returns Ok(p): p is path_dir joined with key, the
\* file at p holds exactly the bytes download_to_bytes returned in the call,
\* and path_dir and the parent directory of p exist.
C7_DownloadFileResult ==
    (last.op = "download_file" /\ IsOk(last.result)) =>
        /\ last.result.val = Join(last.args.path_dir, last.args.key)
        /\ IsSome(last.got)
        /\ ReadFile(fs, last.result.val) = [ok |-> TRUE, data |-> Unwrap(last.got)]
        /\ IsDir(fs, last.args.path_dir)
        /\ IsSome(Parent(last.result.val))
        /\ IsDir(fs, Unwrap(Parent(last.result.val)))

\* C7 witness: a download into a missing directory, under a nested key
C7_Witness ==
    /\ last.op = "download_file" /\ IsOk(last.result)
    /\ ~Exists(last.args.before, last.args.path_dir)
    /\ last.args.key = <<"s", "k">>
    /\ last.result.val = <<"n", "m", "s", "k">>
    /\ fs[<<"w", "n", "m", "s", "k">>] = FileEntry(<<1, 2>>)

\* C8: after upload_file(bucket, key, path) returned Ok, with no other write
\* of (bucket, key), the file a download_file(bucket, key, dir) that returns
\* Ok(dest) leaves at dest holds the bytes of the file at path.
C8_FileRoundTrip ==
    (/\ last.op = "download_file" /\ IsOk(last.result)
     /\ LastId \in DOMAIN uploaded
     /\ uploaded[LastId].op = "upload_file")
        => ReadFile(fs, last.result.val) = [ok |-> TRUE, data |-> uploaded[LastId].data]

\* C9: valid_file_type returns Ok exactly when the sniffer recognises a type
\* whose extension is expected; otherwise an InvalidFileType error (naming
\* expected and the detected extension when they differ); it issues no request.
C9_ValidFileType ==
    last.op = "valid_file_type" =>
        LET found == InferGet(last.args.file)
        IN  /\ IsOk(last.result) <=> (IsSome(found) /\ Unwrap(found) = last.args.expected)
            /\ IsErr(last.result) => last.result.kind = "InvalidFileType"
            /\ IsNone(found) => last.result.msg = <<"Failed to get file type">>
            /\ (IsSome(found) /\ Unwrap(found) /= last.args.expected)
                   => last.result.msg
                          = <<"File type is not valid", last.args.expected, Unwrap(found)>>
            /\ last.reqs = <<>>

\* C9 witness: the jpg signature checked against jpg, as in the test
C9_Witness ==
    /\ last.op = "valid_file_type" /\ IsOk(last.result)
    /\ last.args.file = <<255, 216, 255>> /\ last.args.expected = "jpg"

\* C10: push submits one request whose parent is queue, whose task is
\* new_task of the arguments and whose response view is res_view, and returns
\* what push_task returns for it: Ok with the SDK's response and task, or the
\* CloudTasks error.
C10_PushIsPushTask ==
    last.op = "push" =>
        LET a == last.args
            task == new_task(a.service, a.method, a.body, a.headers, a.name,
                             a.schedule_time, a.oidc_token)
            direct == push_task(a.before, a.queue, task, a.res_view, a.send)
        IN  /\ Len(last.reqs) = 1
            /\ last.reqs[1].req.parent = a.queue
            /\ last.reqs[1].req.rq = [task |-> Some(task), response_view |-> a.res_view]
            /\ last.reqs = direct.reqs
            /\ last.result = direct.result
            /\ last.result = IF last.reqs[1].ok
                             THEN Ok(<<200, CreatedTask(last.reqs[1].req.rq)>>)
                             ELSE Err("TasksClient", "CloudTasks", "sdk")

\* C10 witness: a push with a name and a response view that returned Ok
C10_Witness ==
    /\ last.op = "push" /\ IsOk(last.result)
    /\ last.args.res_view = Some("FULL") /\ last.args.name = Some("t1")
    /\ last.result.val[2].view = Some("FULL")

\* the resource name the last get_secret or get_secret_version asked for, and
\* the access response the service gave
LastAccessName ==
    <<"projects", last.args.project, "secrets", last.args.secret, "versions",
      IF last.op = "get_secret" THEN "latest" ELSE last.args.version>>

LastAccess == GsmAccess(secrets, LastAccessName, last.args.fault)

\* C11: on the Google client, get_secret and get_secret_version issue one
\* access request and decide the outcome from its response in this order: a
\* failed call gives the SecretManager error; a response without payload gives
\* NoPayload; a payload without data gives NoData; otherwise Ok with the
\* payload data unchanged.
C11_AccessOutcome ==
    (self = "gsm" /\ last.op \in {"get_secret", "get_secret_version"}) =>
        LET s == LastAccess
        IN  /\ Len(last.reqs) = 1
            /\ last.reqs[1].req.name = LastAccessName
            /\ last.reqs[1].ok = s.ok
            /\ last.result =
                   IF ~s.ok THEN Err("SecretManager", "SecretManager", "sdk")
                   ELSE IF IsNone(s.payload) THEN Err("SecretManager", "NoPayload", "")
                   ELSE IF IsNone(Unwrap(s.payload).data)
                   THEN Err("SecretManager", "NoData", "")
                   ELSE Ok(Unwrap(Unwrap(s.payload).data))
            /\ IsOk(last.result) =>
                   last.result.val
                       = Unwrap(secrets[<<last.args.project, last.args.secret>>]
                                       [VersionOf(secrets[<<last.args.project,
                                                            last.args.secret>>],
                                                  LastAccessName[6])].data)

\* C11 witness: version 1 of an existing secret is asked for and the response
\* carries a payload without data
C11_Witness ==
    /\ self = "gsm" /\ last.op = "get_secret_version"
    /\ last.args.version = "1" /\ last.args.fault.resp = "nodata"
    /\ last.reqs[1].ok
    /\ last.result = Err("SecretManager", "NoData", "")

\* the key of a secret in the store of the client, and whether the store holds
\* it with a latest version of the given value
SecretId(slf, project, name) == IF slf = "gsm" THEN <<project, name>> ELSE <<name>>

HoldsValue(slf, store, id, value) ==
    /\ id \in DOMAIN store
    /\ IF slf = "gsm"
       THEN /\ Len(store[id]) > 0
            /\ store[id][Len(store[id])].data = Some(Utf8(value))
       ELSE store[id].string = Some(value)

\* C12: create_secret is all-or-nothing: when it returns Err, the store holds
\* no secret of that name that it did not hold before the call; when it
\* returns Ok, the secret exists with a version holding the value.
C12_CreateAllOrNothing ==
    last.op = "create_secret" =>
        LET id == SecretId(self, last.args.project, last.args.secret_name)
        IN  /\ IsErr(last.result) =>
                   (id \in DOMAIN secrets => id \in DOMAIN last.args.before)
            /\ IsOk(last.result) =>
                   HoldsValue(self, secrets, id, last.args.secret_val)

\* the location a path names when every directory on the way exists
RECURSIVE StepAll(_, _)
StepAll(at, comps) ==
    IF comps = <<>> THEN at ELSE StepAll(StepTo(at, Head(comps)), Tail(comps))

LocOf(p) == StepAll(StartOf(p), CompsOf(p))

\* the locations whose entry differs between two file systems
Changed(before, after) ==
    {loc \in DOMAIN before \cup DOMAIN after :
        \/ loc \notin DOMAIN before
        \/ loc \notin DOMAIN after
        \/ before[loc] /= after[loc]}

\* loc lies at or below base
Within(loc, base) == Len(loc) >= Len(base) /\ Prefix(loc, Len(base)) = base

\* C13: every file download_file creates or overwrites and every directory it
\* creates lies at or below path_dir (the missing directories on the way to
\* path_dir itself aside), whatever the key.
C13_WritesInside ==
    last.op = "download_file" =>
        LET base == LocOf(last.args.path_dir)
        IN  \A loc \in Changed(last.args.before, fs) :
               Within(loc, base) \/ Within(base, loc)

\* C14: when path_dir exists and is not a directory, download_file returns the
\* Other error "is not a directory", issues no request and leaves the file
\* system as it was; when the download request fails, download_file returns
\* the error of the request and the entry at path_dir joined with key is as it
\* was before the call.
C14_DownloadFileFrame ==
    last.op = "download_file" =>
        LET a == last.args
            dest == LocOf(Join(a.path_dir, a.key))
        IN  /\ (Exists(a.before, a.path_dir) /\ ~IsDir(a.before, a.path_dir)) =>
                   /\ last.result = Err("StorageClient", "Other", "is not a directory")
                   /\ last.reqs = <<>>
                   /\ fs = a.before
            /\ (Len(last.reqs) = 1 /\ ~last.reqs[1].ok) =>
                   /\ last.result
                          = Err("StorageClient", "Storage",
                                IF self = "gcs" THEN "download_object" ELSE "get_object")
                   /\ dest \in DOMAIN fs <=> dest \in DOMAIN a.before
                   /\ dest \in DOMAIN fs => fs[dest] = a.before[dest]

\* C14 witness: a download into a path that is a regular file
C14_Witness ==
    /\ last.op = "download_file"
    /\ last.args.path_dir = <<"f">>
    /\ IsFileAt(last.args.before, <<"w", "f">>)
    /\ IsErr(last.result) /\ last.result.kind = "Other"
    /\ last.reqs = <<>>
    /\ fs = last.args.before

\* C15: upload_file reads the local file first: when the read fails it returns
\* an IO error, issues no request and leaves the object store as it was;
\* otherwise it does what upload_from_bytes(bucket, key, None, bytes of the
\* file) does: one upload request under key, without MIME type, in which the
\* path of the local file does not appear.
C15_UploadFile ==
    last.op = "upload_file" =>
        LET a == last.args
            src == ReadFile(fs, a.path)
        IN  IF ~src.ok
            THEN /\ last.result = Err("StorageClient", "IO", "read")
                 /\ last.reqs = <<>>
                 /\ objects = a.before
            ELSE /\ Len(last.reqs) = 1
                 /\ last.reqs[1].req
                        = [api |-> IF self = "gcs" THEN "upload_object" ELSE "put_object",
                           bucket |-> a.bucket, key |-> a.key, mime |-> None,
                           body |-> src.data]
                 /\ \E f \in {NoFault, SendFails} :
                        LET up == upload_from_bytes(self, a.before, a.bucket, a.key, None,
                                                    src.data, f)
                        IN  /\ last.reqs = up.reqs
                            /\ last.result = up.result
                 /\ last.reqs[1].ok =>
                        /\ IsOk(last.result)
                        /\ objects[<<a.bucket, a.key>>] = [data |-> src.data, mime |-> None]
                 /\ ~last.reqs[1].ok => (IsErr(last.result) /\ objects = a.before)

\* C15 witness: an upload of a local file that does not exist
C15_Witness ==
    /\ last.op = "upload_file"
    /\ last.args.path = <<"n">>
    /\ ~ReadFile(fs, <<"n">>).ok
    /\ last.result = Err("StorageClient", "IO", "read")
    /\ last.reqs = <<>>

====
